---------------------------- MODULE Spec2Model ----------------------------
(***************************************************************************)
(* FiFi-Dienstplan: the shift planner of FiFi_Dienstplan.py.               *)
(*                                                                         *)
(* The model follows one call of generate_schedule() from the state the    *)
(* module-level code leaves behind: the employee table, the planning       *)
(* horizon (dates), the holiday set (feiertage) and the two shift          *)
(* catalogs.  generate_schedule builds a PuLP problem (decision variables, *)
(* objective, constraints), hands it to the solver, and decodes the        *)
(* solved values into the per-employee schedule.                           *)
(*                                                                         *)
(* Representation:                                                         *)
(*   - a date is its day number since 1970-01-01 (a pandas Timestamp at    *)
(*     midnight); strftime('%Y-%m-%d') is DateStr, a real string;          *)
(*   - hours (start, duration, paid time) are kept in hundredths of an     *)
(*     hour, so 6.75 is 675;                                               *)
(*   - a solved variable value is kept in ten-thousandths, so 1 is 10000   *)
(*     and 0.9999 is 9999;                                                 *)
(*   - the solver (PuLP/CBC) is not code of this repository: Solve gives   *)
(*     it every outcome its contract allows.                               *)
(***************************************************************************)
EXTENDS Integers, Sequences, FiniteSets, TLC

VARIABLES
    employees,              \* name -> employee record (st.session_state['employees'])
    start_date,             \* first day of the horizon
    end_date,               \* last day of the horizon
    dates,                  \* pd.date_range(start_date, end_date), a sequence of days
    year,                   \* start_date.year
    feiertage,              \* the horizon dates found in deutschland_feiertage
    shifts_weekday,         \* shift kind -> [duration, start], weekdays
    shifts_weekend,         \* shift kind -> [duration, start], weekends and holidays
    pc,                     \* where generate_schedule stands
    assignments,            \* keys (employee, date_str, shift) of the decision variables
    average_shifts,         \* the fairness targets, as numerators over total_max_hours
    consecutive_days_vars,  \* keys (employee, idx) of the overflow variables
    objective,              \* the objective's coefficients
    prob,                   \* the constraints added to the problem
    solver_calls,           \* how often prob.solve() ran
    status,                 \* pulp.LpStatus[prob.status]
    values,                 \* key -> solved value of the decision variable
    overflow,               \* key -> solved value of the overflow variable
    ret                     \* what generate_schedule returned (or raised)

vars == <<employees, start_date, end_date, dates, year, feiertage, shifts_weekday,
          shifts_weekend, pc, assignments, average_shifts, consecutive_days_vars,
          objective, prob, solver_calls, status, values, overflow, ret>>

inputs == <<employees, start_date, end_date, dates, year, feiertage, shifts_weekday,
            shifts_weekend>>

-----------------------------------------------------------------------------
(* Program constants                                                       *)

max_consecutive_days == 6
max_daily_hours == 8
min_rest_time == 11
allowed_shift_deviation == 2
penalty_per_day == 100
preference_weight == 10
penalty_weight == 1
min_staff == 2
max_staff == 3
rolling_cap_hours == 48 * 4
break_threshold == 6
break_hours == 1

\* One hour in the unit hours are kept in (hundredths).
Hour == 100
\* The value 1 of a solved variable, in the unit values are kept in.
One == 10000
\* The value None of a variable the solver has set no value for.
NoValue == -1

Frueh == "Frühschicht"
Spaet == "Spätschicht"
ShiftKinds == <<Frueh, Spaet>>
ShiftSet == {Frueh, Spaet}

SourceWeekday ==
    (Frueh :> [duration |-> 800, start |-> 675]) @@
    (Spaet :> [duration |-> 800, start |-> 1475])

SourceWeekend ==
    (Frueh :> [duration |-> 500, start |-> 925]) @@
    (Spaet :> [duration |-> 600, start |-> 1425])

-----------------------------------------------------------------------------
(* Calendar: what datetime / pandas / holidays compute                     *)

\* date(y, m, d) as a day number (proleptic Gregorian, 1970-01-01 = 0).
DaysFromCivil(y, m, d) ==
    LET yy  == IF m <= 2 THEN y - 1 ELSE y
        era == yy \div 400
        yoe == yy - era * 400
        mp  == IF m > 2 THEN m - 3 ELSE m + 9
        doy == (153 * mp + 2) \div 5 + d - 1
        doe == yoe * 365 + yoe \div 4 - yoe \div 100 + doy
    IN  era * 146097 + doe - 719468

\* <<year, month, day>> of a day number.
Civil(z0) ==
    LET z   == z0 + 719468
        era == z \div 146097
        doe == z - era * 146097
        yoe == (doe - doe \div 1460 + doe \div 36524 - doe \div 146096) \div 365
        doy == doe - (365 * yoe + yoe \div 4 - yoe \div 100)
        mp  == (5 * doy + 2) \div 153
        d   == doy - (153 * mp + 2) \div 5 + 1
        m   == IF mp < 10 THEN mp + 3 ELSE mp - 9
        y   == yoe + era * 400 + (IF m <= 2 THEN 1 ELSE 0)
    IN  <<y, m, d>>

YearOf(date) == Civil(date)[1]

\* date.weekday(): Monday is 0, Sunday is 6.
Weekday(date) == (date + 3) % 7

DayNames == <<"Monday", "Tuesday", "Wednesday", "Thursday", "Friday", "Saturday", "Sunday">>

\* date.strftime('%A')
DayName(date) == DayNames[Weekday(date) + 1]

Pad2(n) == IF n < 10 THEN "0" \o ToString(n) ELSE ToString(n)

\* date.strftime('%Y-%m-%d')
DateStr(date) ==
    LET c == Civil(date) IN ToString(c[1]) \o "-" \o Pad2(c[2]) \o "-" \o Pad2(c[3])

\* date.isocalendar(): <<ISO year, ISO week number>>; the week belongs to the
\* year of its Thursday.
IsoCalendar(date) ==
    LET th == date - Weekday(date) + 3
        y  == YearOf(th)
    IN  <<y, (th - DaysFromCivil(y, 1, 1)) \div 7 + 1>>

\* Easter Sunday of year y (Gregorian computus), as a day number.
Easter(y) ==
    LET a == y % 19
        b == y \div 100
        c == y % 100
        d == b \div 4
        e == b % 4
        f == (b + 8) \div 25
        g == (b - f + 1) \div 3
        h == (19 * a + b - d - g + 15) % 30
        i == c \div 4
        k == c % 4
        l == (32 + 2 * e + 2 * i - h - k) % 7
        m == (a + 11 * h + 22 * l) \div 451
        n == h + l - 7 * m + 114
    IN  DaysFromCivil(y, n \div 31, (n % 31) + 1)

\* holidays.Germany(prov='NW')._populate(y): the public holidays of
\* Nordrhein-Westfalen in year y.
PopulateNW(y) ==
    { DaysFromCivil(y, 1, 1),        \* Neujahr
      Easter(y) - 2,                 \* Karfreitag
      Easter(y) + 1,                 \* Ostermontag
      DaysFromCivil(y, 5, 1),        \* Erster Mai
      Easter(y) + 39,                \* Christi Himmelfahrt
      Easter(y) + 50,                \* Pfingstmontag
      Easter(y) + 60,                \* Fronleichnam
      DaysFromCivil(y, 10, 3),       \* Tag der Deutschen Einheit
      DaysFromCivil(y, 11, 1),       \* Allerheiligen
      DaysFromCivil(y, 12, 25),      \* Erster Weihnachtstag
      DaysFromCivil(y, 12, 26) }     \* Zweiter Weihnachtstag
    \cup (IF y = 2017 THEN {DaysFromCivil(y, 10, 31)} ELSE {})  \* Reformationstag

\* A holiday object that holds only the years it was built with.
HolidayContainsNoExpand(years, date) ==
    date \in UNION {PopulateNW(y) : y \in years}

\* `date in deutschland_feiertage` for an object built with `years`:
\* HolidayBase.__contains__ populates the date's year when it is missing
\* (expand=True, the default the code leaves in place) and then looks it up.
HolidayContains(years, date) ==
    date \in UNION {PopulateNW(y) : y \in years \cup {YearOf(date)}}

Range(seq) == {seq[i] : i \in DOMAIN seq}

\* pd.date_range(start, end): every day from start to end.
DateRange(start, end) == [i \in 1..(end - start + 1) |-> start + i - 1]

\* pd.to_datetime(date_str) for a string strftime made of a horizon date.
ToDatetime(date_str) == CHOOSE d \in Range(dates) : DateStr(d) = date_str

\* dict.get(key, default)
Get(f, key, default) == IF key \in DOMAIN f THEN f[key] ELSE default


-----------------------------------------------------------------------------
(* Calendar Resolver, Shift Catalog, Preference Resolver                   *)

is_weekend_or_holiday(date) == Weekday(date) >= 5 \/ date \in feiertage

get_shift_duration(shift, date) ==
    IF is_weekend_or_holiday(date)
    THEN shifts_weekend[shift].duration
    ELSE shifts_weekday[shift].duration

get_shift_start(shift, date) ==
    IF is_weekend_or_holiday(date)
    THEN shifts_weekend[shift].start
    ELSE shifts_weekday[shift].start

get_actual_working_time(shift, date) ==
    LET duration == get_shift_duration(shift, date)
    IN  IF duration > break_threshold * Hour THEN duration - break_hours * Hour ELSE duration

\* The weekday entry consulted first: the resolution order reversed.
PreferenceScoreWeekdayFirst(employee, date, shift) ==
    LET preferences == Get(employees[employee], "preferences", <<>>)
        date_str    == DateStr(date)
        day_name    == DayName(date)
    IN  IF day_name \in DOMAIN preferences
        THEN Get(preferences[day_name], shift, 0)
        ELSE IF date_str \in DOMAIN preferences
             THEN Get(preferences[date_str], shift, 0)
             ELSE 0

get_preference_score(employee, date, shift) ==
    LET preferences == Get(employees[employee], "preferences", <<>>)
        date_str    == DateStr(date)
        day_name    == DayName(date)
    IN  IF date_str \in DOMAIN preferences
        THEN Get(preferences[date_str], shift, 0)
        ELSE IF day_name \in DOMAIN preferences
             THEN Get(preferences[day_name], shift, 0)
             ELSE 0

-----------------------------------------------------------------------------
(* The inputs of a run: employee tables and horizons                       *)

\* Longest horizon the general tables are planned over.
MaxDays == 3
\* How many solved values the solver may report off their exact 0 or 1.
MaxPerturbed == 1

NoEntries == [k \in {} |-> 0]

Emp(max, min, avail, restr, prefs) ==
    [max_weekly_hours |-> max, min_weekly_hours |-> min, availability |-> avail,
     restrictions |-> restr, preferences |-> prefs]

EveryDay(kinds) == [d \in Range(DayNames) |-> kinds]
OnDays(days, kinds) == [d \in days |-> kinds]

\* As the employee editor saves a record: every weekday, both kinds.
Standard(max, min) == Emp(max, min, EveryDay(<<Frueh, Spaet>>), NoEntries, NoEntries)

TableNone == [n \in {} |-> Standard(40, 32)]

TableTwo == [n \in {"A", "B"} |-> Standard(40, 0)]

TableFour == [n \in {"A", "B", "C", "D"} |-> Standard(40, 5)]

FlexPreferences ==
    ("2025-01-06" :> (Frueh :> -2)) @@
    ("Monday"     :> ((Frueh :> 5) @@ (Spaet :> 3))) @@
    ("Tuesday"    :> (Spaet :> 4)) @@
    ("Wednesday"  :> (Spaet :> -1)) @@
    ("Saturday"   :> (Frueh :> 1)) @@
    ("2026-01-01" :> (Spaet :> 2))

TableFive ==
    ("A" :> Emp(40, 5, EveryDay(<<Frueh>>), NoEntries, NoEntries)) @@
    ("B" :> Emp(40, 5, EveryDay(<<Frueh>>), NoEntries, NoEntries)) @@
    ("C" :> Emp(40, 5, EveryDay(<<Spaet>>), NoEntries, NoEntries)) @@
    ("D" :> Emp(40, 5, EveryDay(<<Spaet>>), NoEntries, NoEntries)) @@
    ("E" :> Emp(20, 0, EveryDay(<<Frueh, Spaet>>),
                ("2025-01-07" :> <<Frueh>>), FlexPreferences))

\* min_weekly_hours above max_weekly_hours (the editor accepts it).
TableContradictory == [TableFour EXCEPT !["A"] = Standard(20, 30)]

\* max_weekly_hours of 0 throughout (an edited employees.json).
TableZeroHours == [n \in {"A", "B", "C", "D"} |-> Standard(0, 0)]

\* Eight employees for a full week, each available where the week needs them.
TableWeek ==
    ("A" :> Emp(150, 35, EveryDay(<<Frueh>>), NoEntries,
                ("Sunday" :> (Frueh :> 20)) @@ ("Monday" :> (Frueh :> 3)))) @@
    ("B" :> Emp(60, 0, OnDays({"Monday", "Tuesday", "Wednesday", "Thursday"}, <<Spaet>>),
                NoEntries, NoEntries)) @@
    ("C" :> Emp(60, 0, OnDays({"Monday", "Tuesday", "Wednesday", "Sunday"}, <<Spaet>>),
                NoEntries, NoEntries)) @@
    ("D" :> Emp(30, 0, OnDays({"Thursday", "Friday", "Saturday"}, <<Spaet>>),
                NoEntries, NoEntries)) @@
    ("E" :> Emp(30, 0, OnDays({"Friday", "Saturday", "Sunday"}, <<Spaet>>),
                NoEntries, NoEntries)) @@
    ("F" :> Emp(30, 0, OnDays({"Monday", "Tuesday", "Sunday"}, <<Frueh>>),
                NoEntries, NoEntries)) @@
    ("G" :> Emp(30, 0, OnDays({"Wednesday", "Thursday", "Sunday"}, <<Frueh>>),
                NoEntries, NoEntries)) @@
    ("H" :> Emp(30, 0, OnDays({"Friday", "Saturday", "Sunday"}, <<Frueh>>),
                NoEntries, NoEntries))

\* The tables planned from every start date, and those planned from the
\* first one only.
Tables == {TableNone, TableTwo, TableFive, TableZeroHours}
MondayTables == {TableFour, TableContradictory}

\* A Monday in a plain week; a Wednesday before a New Year's Day of the
\* following calendar year; a Saturday at the end of an ISO year.
StartDates ==
    {DaysFromCivil(2025, 1, 6), DaysFromCivil(2025, 12, 31), DaysFromCivil(2024, 12, 28)}

Horizons ==
    {[employees |-> t, start |-> s, days |-> n] :
        t \in Tables, s \in StartDates, n \in 1..MaxDays}
    \cup {[employees |-> t, start |-> DaysFromCivil(2025, 1, 6), days |-> n] :
            t \in MondayTables, n \in 1..MaxDays}
    \cup {[employees |-> TableWeek, start |-> DaysFromCivil(2025, 1, 6),
           days |-> max_consecutive_days + 1]}
    \cup {[employees |-> TableFour, start |-> DaysFromCivil(2025, 1, 6),
           days |-> Cardinality(DOMAIN TableFour) + 1]}

\* The state the module-level code leaves for generate_schedule.
Loaded(h, weekday, weekend) ==
    /\ employees = h.employees
    /\ start_date = h.start
    /\ end_date = h.start + h.days - 1
    /\ dates = DateRange(h.start, h.start + h.days - 1)
    /\ year = YearOf(h.start)
    /\ feiertage = {d \in Range(DateRange(h.start, h.start + h.days - 1)) :
                        HolidayContains({YearOf(h.start)}, d)}
    /\ shifts_weekday = weekday
    /\ shifts_weekend = weekend
    /\ pc = "start"
    /\ assignments = {}
    /\ average_shifts = NoEntries
    /\ consecutive_days_vars = {}
    /\ objective = NoEntries
    /\ prob = {}
    /\ solver_calls = 0
    /\ status = "Not Solved"
    /\ values = NoEntries
    /\ overflow = NoEntries
    /\ ret = [kind |-> "running", dienstplan |-> NoEntries, message |-> ""]

Init == \E h \in Horizons : Loaded(h, SourceWeekday, SourceWeekend)

-----------------------------------------------------------------------------
(* Constraint Model Builder                                                *)
(*                                                                         *)
(* A constraint is kept as PuLP keeps it: the coefficient of each decision *)
(* variable (terms), the sense and the right-hand side.  A sum built with  *)
(* assignments.get(key, 0) has a term for each key that exists.  Where the *)
(* code's bound is a fraction (the fairness targets) the constraint is     *)
(* multiplied through by the denominator, so that all numbers are whole.   *)

RECURSIVE SumOver(_, _)
\* sum([f[k] for k in S])
SumOver(S, f) ==
    IF S = {} THEN 0
    ELSE LET k == CHOOSE k \in S : TRUE IN f[k] + SumOver(S \ {k}, f)

EmployeeNames == DOMAIN employees

\* The key of the decision variable of (employee, date, shift).
Key(e, date, shift) == <<e, DateStr(date), shift>>

\* shifts_weekend.keys() if is_weekend else shifts_weekday.keys()
available_kinds(date) ==
    IF is_weekend_or_holiday(date) THEN DOMAIN shifts_weekend ELSE DOMAIN shifts_weekday

\* Lines 125-132: one binary variable per employee, date and offered kind.
OfferedKeys ==
    UNION {{Key(e, d, shift) : e \in EmployeeNames, shift \in available_kinds(d)} :
              d \in Range(dates)}

total_shifts == Len(dates) * 2
num_employees == Cardinality(EmployeeNames)
total_max_hours ==
    SumOver(EmployeeNames, [e \in EmployeeNames |-> employees[e].max_weekly_hours])

\* The parts of a constraint's name: kind is its prefix; e, d, s, d2, s2 and
\* idx are the parts that follow ("" and 0 where the name has none).
Name(kind, e, d, s, d2, s2, idx) ==
    [kind |-> kind, e |-> e, d |-> d, s |-> s, d2 |-> d2, s2 |-> s2, idx |-> idx]

NoVar == <<"", -1>>

\* prob += (sum of terms) sense rhs, name.  ovar is the overflow variable
\* of a soft constraint: terms - ovar <= rhs.
Con(name, terms, sense, rhs, ovar) ==
    [name |-> name, terms |-> terms, sense |-> sense, rhs |-> rhs, ovar |-> ovar]

\* The existing variables of employee e on the dates ds (as strings), for the
\* kinds of shifts_weekday.keys().
KeysOf(e, ds) ==
    {k \in assignments : k[1] = e /\ k[2] \in ds /\ k[3] \in DOMAIN shifts_weekday}

Ones(K) == [k \in K |-> 1]

\* x * get_actual_working_time(shift, date) for each key; the date is read
\* back from the key's string where the code does so (line 197).
PaidTerms(K) == [k \in K |-> get_actual_working_time(k[3], ToDatetime(k[2]))]

\* range(len(dates) - max_consecutive_days), line 157: the soft windows.
SoftWindowStarts == 0..(Len(dates) - max_consecutive_days - 1)

\* The hard windows stopping one short.
HardWindowStartsShort == 0..(Len(dates) - max_consecutive_days - 2)

\* range(len(dates) - max_consecutive_days), line 240: the hard windows.
HardWindowStarts == 0..(Len(dates) - max_consecutive_days - 1)

\* The date strings of the window that starts at idx (dates[idx + j], j in
\* range(max_consecutive_days + 1)).
WindowDates(idx) == {DateStr(dates[idx + j + 1]) : j \in 0..max_consecutive_days}

\* Lines 156-167: var >= total_consecutive - max_consecutive_days.
SoftConstraints ==
    {Con(Name("SoftMaxConsecutiveDays", e, "", "", "", "", idx),
         Ones(KeysOf(e, WindowDates(idx))), "soft", max_consecutive_days, <<e, idx>>) :
        e \in EmployeeNames, idx \in SoftWindowStarts}

\* The keys of one date and kind, over all employees.
StaffKeys(date_str, shift) == {k \in assignments : k[2] = date_str /\ k[3] = shift}

\* 1. Personalbesetzung pro Schicht
StaffConstraints ==
    UNION {{Con(Name("MinStaff", "", p[1], p[2], "", "", 0),
                Ones(StaffKeys(p[1], p[2])), ">=", min_staff, NoVar),
            Con(Name("MaxStaff", "", p[1], p[2], "", "", 0),
                Ones(StaffKeys(p[1], p[2])), "<=", max_staff, NoVar)} :
              p \in UNION {{<<DateStr(d), shift>> : shift \in available_kinds(d)} :
                              d \in Range(dates)}}

\* weeks: week number -> the date strings of the dates with that week number
\* (lines 187-192); the key is date.isocalendar()[1] alone.
weeks ==
    [w \in {IsoCalendar(d)[2] : d \in Range(dates)} |->
        {DateStr(d) : d \in {x \in Range(dates) : IsoCalendar(x)[2] = w}}]

\* 2. Woechentliche Arbeitszeit pro Mitarbeiter
WeeklyConstraints ==
    UNION {{Con(Name("MaxWeeklyHours", p[1], "", "", "", "", p[2]),
                PaidTerms(KeysOf(p[1], weeks[p[2]])), "<=",
                employees[p[1]].max_weekly_hours * Hour, NoVar),
            Con(Name("MinWeeklyHours", p[1], "", "", "", "", p[2]),
                PaidTerms(KeysOf(p[1], weeks[p[2]])), ">=",
                employees[p[1]].min_weekly_hours * Hour, NoVar)} :
              p \in EmployeeNames \X DOMAIN weeks}

\* 3. Maximale taegliche Arbeitszeit
DailyConstraints ==
    {Con(Name("MaxDailyHours", e, DateStr(d), "", "", "", 0),
         PaidTerms(KeysOf(e, {DateStr(d)})), "<=", max_daily_hours * Hour, NoVar) :
        e \in EmployeeNames, d \in Range(dates)}

\* 4. Maximal eine Schicht pro Tag pro Mitarbeiter
OneShiftConstraints ==
    {Con(Name("MaxOneShiftPerDay", e, DateStr(d), "", "", "", 0),
         Ones(KeysOf(e, {DateStr(d)})), "<=", 1, NoVar) :
        e \in EmployeeNames, d \in Range(dates)}

\* Lines 229-234: the kind is not available that weekday, or restricted that date.
Restricted(e, date, shift) ==
    LET available_shifts  == Get(employees[e].availability, DayName(date), <<>>)
        restricted_shifts == Get(Get(employees[e], "restrictions", <<>>), DateStr(date), <<>>)
    IN  shift \notin Range(available_shifts) \/ shift \in Range(restricted_shifts)

\* 5. Verfuegbarkeiten und Einschraenkungen
RestrictionConstraints ==
    {Con(Name("Restriction", t[1], DateStr(dates[t[2]]), t[3], "", "", 0),
         Ones({Key(t[1], dates[t[2]], t[3])}), "==", 0, NoVar) :
        t \in {u \in EmployeeNames \X (1..Len(dates)) \X (DOMAIN shifts_weekday) :
                /\ Restricted(u[1], dates[u[2]], u[3])
                /\ Key(u[1], dates[u[2]], u[3]) \in assignments}}

\* The hard limit one day too high: a full window passes.
ConsecutiveConstraintsLoose ==
    {Con(Name("MaxConsecutiveDays", e, "", "", "", "", idx),
         Ones(KeysOf(e, WindowDates(idx))), "<=", max_consecutive_days + 1, NoVar) :
        e \in EmployeeNames, idx \in HardWindowStarts}

\* 6. Maximal erlaubte aufeinanderfolgende Arbeitstage (harte Grenze)
ConsecutiveConstraints ==
    {Con(Name("MaxConsecutiveDays", e, "", "", "", "", idx),
         Ones(KeysOf(e, WindowDates(idx))), "<=", max_consecutive_days, NoVar) :
        e \in EmployeeNames, idx \in HardWindowStarts}

\* Lines 258-262, in hundredths of an hour.
rest_time(current_shift, current_date, next_shift, next_date) ==
    LET end_time_current == get_shift_start(current_shift, current_date)
                            + get_shift_duration(current_shift, current_date)
        start_time_next  == get_shift_start(next_shift, next_date)
    IN  (start_time_next + (IF start_time_next <= end_time_current THEN 24 * Hour ELSE 0))
        - end_time_current

\* 7. Mindestruhezeit zwischen Schichten
RestConstraints ==
    {Con(Name("MinRestTime", t[1], DateStr(dates[t[2]]), t[3], DateStr(dates[t[2] + 1]), t[4], 0),
         Ones({Key(t[1], dates[t[2]], t[3]), Key(t[1], dates[t[2] + 1], t[4])}),
         "<=", 1, NoVar) :
        t \in {u \in EmployeeNames \X (1..(Len(dates) - 1))
                      \X (DOMAIN shifts_weekday) \X (DOMAIN shifts_weekday) :
                /\ Key(u[1], dates[u[2]], u[3]) \in assignments
                /\ Key(u[1], dates[u[2] + 1], u[4]) \in assignments
                /\ rest_time(u[3], dates[u[2]], u[4], dates[u[2] + 1])
                       < min_rest_time * Hour}}

AllDateStrs == {DateStr(d) : d \in Range(dates)}

\* The lower fairness bound alone: no employee's total is capped.
FairnessConstraintsMinOnly ==
    {Con(Name("FairnessMin", e, "", "", "", "", 0),
         [k \in KeysOf(e, AllDateStrs) |-> average_shifts[e].den * average_shifts[e].den],
         ">=",
         average_shifts[e].num * average_shifts[e].den
             - allowed_shift_deviation * average_shifts[e].den * average_shifts[e].den,
         NoVar) : e \in EmployeeNames}

\* 8. Fairness in der Schichtverteilung: total >= num/den - deviation and
\* total <= num/den + deviation, multiplied by den * den (which is > 0).
FairnessConstraints ==
    UNION {{Con(Name("FairnessMin", e, "", "", "", "", 0),
                [k \in KeysOf(e, AllDateStrs) |-> average_shifts[e].den * average_shifts[e].den],
                ">=",
                average_shifts[e].num * average_shifts[e].den
                    - allowed_shift_deviation * average_shifts[e].den * average_shifts[e].den,
                NoVar),
            Con(Name("FairnessMax", e, "", "", "", "", 0),
                [k \in KeysOf(e, AllDateStrs) |-> average_shifts[e].den * average_shifts[e].den],
                "<=",
                average_shifts[e].num * average_shifts[e].den
                    + allowed_shift_deviation * average_shifts[e].den * average_shifts[e].den,
                NoVar)} : e \in EmployeeNames}

\* The keys summed by calculate_weekend_holiday_shifts, over all employees.
WeekendKeys ==
    UNION {{k \in assignments : k[2] = DateStr(d) /\ k[3] \in DOMAIN shifts_weekday} :
              d \in {x \in Range(dates) : is_weekend_or_holiday(x)}}

\* own - total / num_employees, multiplied by num_employees.
WeekendTerms(e) ==
    [k \in WeekendKeys |-> IF k[1] = e THEN num_employees - 1 ELSE -1]

\* 9. Fairness bei Wochenend- und Feiertagsschichten
WeekendConstraints ==
    UNION {{Con(Name("FairWeekendHoliday_Max", e, "", "", "", "", 0),
                WeekendTerms(e), "<=", num_employees, NoVar),
            Con(Name("FairWeekendHoliday_Min", e, "", "", "", "", 0),
                WeekendTerms(e), ">=", -num_employees, NoVar)} : e \in EmployeeNames}

\* 10. Rolling Average von 48 Stunden pro Woche ueber 4 Wochen
RollingConstraints ==
    {Con(Name("RollingAvg48h", e, DateStr(dates[i + 1]), "", "", "", i),
         PaidTerms(KeysOf(e, {DateStr(dates[j + 1]) : j \in (i - 27)..i})),
         "<=", rolling_cap_hours * Hour, NoVar) :
        e \in EmployeeNames, i \in {j \in 0..(Len(dates) - 1) : j >= 27}}

HardConstraints ==
    StaffConstraints \cup WeeklyConstraints \cup DailyConstraints
    \cup OneShiftConstraints \cup RestrictionConstraints \cup ConsecutiveConstraints
    \cup RestConstraints \cup FairnessConstraints \cup WeekendConstraints
    \cup RollingConstraints

-----------------------------------------------------------------------------
(* Solver Interface: what prob.solve() may answer                          *)
(*                                                                         *)
(* An assignment x is the set of keys whose variable is 1.                 *)

\* The constraint's left-hand side under x.
Lhs(c, x) == SumOver(x \cap DOMAIN c.terms, c.terms)

\* A soft constraint holds with its overflow variable taking up the excess.
Satisfied(c, x) ==
    CASE c.sense = "<=" -> Lhs(c, x) <= c.rhs
      [] c.sense = ">=" -> Lhs(c, x) >= c.rhs
      [] c.sense = "==" -> Lhs(c, x) = c.rhs
      [] c.sense = "soft" -> TRUE

\* An upper bound with no coefficient below 0: an assignment that breaks it
\* breaks it whatever is added, so a search may drop the assignment early.
IsUpperBound(c) ==
    /\ c.sense \in {"<=", "=="}
    /\ c.rhs >= 0
    /\ \A k \in DOMAIN c.terms : c.terms[k] >= 0

AllHold(cons, x) == \A c \in cons : Satisfied(c, x)

\* The assignments of one day that break no upper bound and meet the lower
\* bounds that concern that day alone.
DayCandidates(date_str, upper, lower) ==
    LET today == {k \in assignments : k[2] = date_str}
        fixed == UNION {DOMAIN c.terms : c \in {u \in upper : u.sense = "==" /\ u.rhs = 0}}
        local == {c \in lower : DOMAIN c.terms \subseteq today}
    IN  {x \in SUBSET (today \ fixed) : AllHold(upper, x) /\ AllHold(local, x)}

RECURSIVE Partial(_, _, _)
\* The assignments of the first i days that break no upper bound.
Partial(i, upper, lower) ==
    IF i = 0 THEN {{}}
    ELSE {y \in {p[1] \cup p[2] :
                    p \in Partial(i - 1, upper, lower)
                          \X DayCandidates(DateStr(dates[i]), upper, lower)} :
            AllHold(upper, y)}

\* Every assignment that satisfies every constraint of cons.
Feasible(cons) ==
    {x \in Partial(Len(dates), {c \in cons : IsUpperBound(c)}, {c \in cons : c.sense = ">="}) :
        AllHold(cons, x)}

FeasibleSet == Feasible(prob)

Max(a, b) == IF a >= b THEN a ELSE b

\* The least values the overflow variables can take with x.
MinimalOverflow(x) ==
    [v \in consecutive_days_vars |->
        LET soft == {c \in prob : c.sense = "soft" /\ c.ovar = v}
        IN  IF soft = {} THEN 0
            ELSE Max(0, Lhs(CHOOSE c \in soft : TRUE, x) - max_consecutive_days)]

ObjectiveValue(x) ==
    SumOver(x, [k \in x |-> objective.pref[k]])
    - SumOver(consecutive_days_vars,
              [v \in consecutive_days_vars |-> objective.pen[v] * MinimalOverflow(x)[v]])

\* How far from its exact value the solver may report a value.
Epsilon == 1

RECURSIVE SubsetsUpTo(_, _)
\* The subsets of S with at most n elements.
SubsetsUpTo(S, n) ==
    IF n = 0 THEN {{}}
    ELSE {p[1] \cup p[2] : p \in SubsetsUpTo(S, n - 1) \X ({{}} \cup {{k} : k \in S})}

\* The variables no constraint fixes at 0: a variable fixed by a constraint
\* of its own is reported at exactly that value.
FreeKeys ==
    assignments \ UNION {DOMAIN c.terms : c \in {u \in prob : u.sense = "==" /\ u.rhs = 0}}

\* The values reported for assignment x, those of the keys in off reported
\* within Epsilon of their exact value instead.
Reported(x, off) ==
    [k \in assignments |->
        IF k \in x
        THEN (IF k \in off THEN One - Epsilon ELSE One)
        ELSE (IF k \in off THEN Epsilon ELSE 0)]

\* The assignments of F with the greatest objective value.
OptimalSet(F) ==
    LET obj == [x \in F |-> ObjectiveValue(x)]
    IN  {x \in F : \A y \in F : obj[y] <= obj[x]}

\* The statuses the solver may report instead of Optimal.
NoSolutionStatuses(F) ==
    IF F = {} THEN {"Infeasible", "Unbounded", "Undefined", "Not Solved"}
    ELSE {"Undefined", "Not Solved"}

\* The answers on a problem whose feasible assignments are F: Optimal with
\* an optimal assignment, or a status that is not Optimal.
OutcomesOf(F) ==
    {[status |-> "Optimal", values |-> Reported(p[1], p[2]),
      overflow |-> MinimalOverflow(p[1])] :
        p \in OptimalSet(F) \X SubsetsUpTo(FreeKeys, MaxPerturbed)}
    \cup {[status |-> st, values |-> [k \in assignments |-> NoValue],
            overflow |-> [v \in consecutive_days_vars |-> NoValue]] :
            st \in NoSolutionStatuses(F)}

\* The answers of prob.solve().
SolverOutcomes == OutcomesOf(FeasibleSet)

-----------------------------------------------------------------------------
(* Schedule Extractor                                                      *)

\* f"{n:02d}:{m:02d}"
Clock(hour, minute) == Pad2(hour) \o ":" \o Pad2(minute)

\* Lines 330-331 and 337: the start as HH:MM, minutes cut off.
StartClock(start_time) ==
    LET start_hour == start_time \div Hour
        start_min  == ((start_time - start_hour * Hour) * 60) \div Hour
    IN  Clock(start_hour, start_min)

\* The end with no wrap at midnight.
EndClockNoWrap(end_time) ==
    LET end_hour == end_time \div Hour
        end_min  == ((end_time - end_hour * Hour) * 60) \div Hour
    IN  Clock(end_hour, end_min)

\* Lines 332-338: the end as HH:MM, 24 taken off an hour of 24 or more.
EndClock(end_time) ==
    LET end_hour == end_time \div Hour
        end_min  == ((end_time - end_hour * Hour) * 60) \div Hour
    IN  Clock(IF end_hour >= 24 THEN end_hour - 24 ELSE end_hour, end_min)

\* Any value but 0 and None taken for an assignment (the value used as a
\* truth value).
ValueIsTruthy(value) == value \notin {0, NoValue}

\* pulp.value(var) == 1
ValueIsOne(value) == value = One

\* Line 326: the variable exists and its solved value is 1.
Assigned(e, date, shift) ==
    /\ Key(e, date, shift) \in assignments
    /\ ValueIsOne(values[Key(e, date, shift)])

\* Lines 327-356: the schedule row of an assigned shift.
Entry(date, shift) ==
    LET start_time == get_shift_start(shift, date)
        end_time   == start_time + get_shift_duration(shift, date)
        duration   == get_shift_duration(shift, date)
        pause      == duration > break_threshold * Hour
    IN  [Datum       |-> DateStr(date),
         Wochentag   |-> DayName(date),
         Schicht     |-> shift,
         Startzeit   |-> StartClock(start_time),
         Endzeit     |-> EndClock(end_time),
         Arbeitszeit |-> IF pause THEN duration - break_hours * Hour ELSE duration,
         Pause       |-> IF pause THEN "Ja" ELSE "Nein"]

\* The rows of employee e on one date, in the order of shifts_weekday.keys().
DayEntries(e, date) ==
    LET kinds == SelectSeq(ShiftKinds, LAMBDA shift : Assigned(e, date, shift))
    IN  [i \in 1..Len(kinds) |-> Entry(date, kinds[i])]

RECURSIVE EntriesUpTo(_, _)
\* The rows of employee e on the first i dates, in date order.
EntriesUpTo(e, i) ==
    IF i = 0 THEN <<>> ELSE EntriesUpTo(e, i - 1) \o DayEntries(e, dates[i])

Dienstplan == [e \in EmployeeNames |-> EntriesUpTo(e, Len(dates))]

-----------------------------------------------------------------------------
(* generate_schedule, step by step                                         *)

\* The guard testing for None only: an empty table passes.
NoEmployeesNever(table) == FALSE

\* `not employees`
NoEmployees(table) == DOMAIN table = {}

\* Only Infeasible taken for a failure.
NotOptimalInfeasibleOnly(st) == st = "Infeasible"

\* pulp.LpStatus[prob.status] != 'Optimal'
NotOptimal(st) == st # "Optimal"

Returned(kind, dienstplan, message) ==
    [kind |-> kind, dienstplan |-> dienstplan, message |-> message]

\* Lines 117-118: no employees, nothing to plan.
ReturnNoEmployees ==
    /\ pc = "start"
    /\ NoEmployees(employees)
    /\ ret' = Returned("none", NoEntries, "Keine Mitarbeiterdaten vorhanden.")
    /\ pc' = "done"
    /\ UNCHANGED <<inputs, assignments, average_shifts, consecutive_days_vars, objective,
                   prob, solver_calls, status, values, overflow>>

\* Lines 121-132: the problem and its decision variables.
CreateVariables ==
    /\ pc = "start"
    /\ ~NoEmployees(employees)
    /\ assignments' = OfferedKeys
    /\ pc' = "averages"
    /\ UNCHANGED <<inputs, average_shifts, consecutive_days_vars, objective, prob,
                   solver_calls, status, values, overflow, ret>>

\* Lines 135-138 with total_max_hours = 0: the division raises.
RaiseZeroDivision ==
    /\ pc = "averages"
    /\ total_max_hours = 0
    /\ ret' = Returned("raised", NoEntries, "ZeroDivisionError")
    /\ pc' = "done"
    /\ UNCHANGED <<inputs, assignments, average_shifts, consecutive_days_vars, objective,
                   prob, solver_calls, status, values, overflow>>

\* Lines 135-138: each employee's share of the shifts.
ComputeAverages ==
    /\ pc = "averages"
    /\ total_max_hours # 0
    /\ average_shifts' =
           [e \in EmployeeNames |->
               [num |-> employees[e].max_weekly_hours * total_shifts, den |-> total_max_hours]]
    /\ pc' = "objective"
    /\ UNCHANGED <<inputs, assignments, consecutive_days_vars, objective, prob,
                   solver_calls, status, values, overflow, ret>>

\* Lines 140-170: the overflow variables, their soft constraints, the objective.
BuildObjective ==
    /\ pc = "objective"
    /\ consecutive_days_vars' = {<<e, idx>> : e \in EmployeeNames, idx \in SoftWindowStarts}
    /\ prob' = prob \cup SoftConstraints
    /\ objective' =
           [pref |-> [k \in assignments |->
                        IF k[3] \in DOMAIN shifts_weekday
                        THEN preference_weight
                             * get_preference_score(k[1], ToDatetime(k[2]), k[3])
                        ELSE 0],
            pen  |-> [v \in {<<e, idx>> : e \in EmployeeNames, idx \in SoftWindowStarts} |->
                        penalty_weight * penalty_per_day]]
    /\ pc' = "constraints"
    /\ UNCHANGED <<inputs, assignments, average_shifts, solver_calls, status, values,
                   overflow, ret>>

\* Lines 172-309: the hard constraints 1 to 10.
AddConstraints ==
    /\ pc = "constraints"
    /\ prob' = prob \cup HardConstraints
    /\ pc' = "solve"
    /\ UNCHANGED <<inputs, assignments, average_shifts, consecutive_days_vars, objective,
                   solver_calls, status, values, overflow, ret>>

\* Line 312: prob.solve().
Solve ==
    /\ pc = "solve"
    /\ solver_calls' = solver_calls + 1
    /\ \E out \in SolverOutcomes :
          /\ status' = out.status
          /\ values' = out.values
          /\ overflow' = out.overflow
    /\ pc' = "status"
    /\ UNCHANGED <<inputs, assignments, average_shifts, consecutive_days_vars, objective,
                   prob, ret>>

\* Lines 315-316: no optimal solution, no schedule.
ReturnNoSolution ==
    /\ pc = "status"
    /\ NotOptimal(status)
    /\ ret' = Returned("none", NoEntries,
                       "Keine optimale Lösung gefunden. Status: " \o status)
    /\ pc' = "done"
    /\ UNCHANGED <<inputs, assignments, average_shifts, consecutive_days_vars, objective,
                   prob, solver_calls, status, values, overflow>>

\* Lines 319-358: the schedule read off the solved values.
ExtractSchedule ==
    /\ pc = "status"
    /\ ~NotOptimal(status)
    /\ ret' = Returned("schedule", Dienstplan, "Optimal")
    /\ pc' = "done"
    /\ UNCHANGED <<inputs, assignments, average_shifts, consecutive_days_vars, objective,
                   prob, solver_calls, status, values, overflow>>

Next ==
    \/ ReturnNoEmployees
    \/ CreateVariables
    \/ RaiseZeroDivision
    \/ ComputeAverages
    \/ BuildObjective
    \/ AddConstraints
    \/ Solve
    \/ ReturnNoSolution
    \/ ExtractSchedule

Spec == Init /\ [][Next]_vars

-----------------------------------------------------------------------------
(* The extractor's clock arithmetic over other catalogs                    *)
(*                                                                         *)
(* The catalogs are data of the program (lines 37-45).  The runs of        *)
(* SpecClock plan with the source's catalogs and with a night catalog      *)
(* whose late shift ends after midnight, so that the extractor's handling  *)
(* of an end hour of 24 or more is exercised.  All times are multiples of  *)
(* a quarter of an hour, which the program's floats hold exactly.          *)

\* Longest horizon planned in the runs of SpecClock.
ClockDays == 2

NightWeekday ==
    (Frueh :> [duration |-> 650, start |-> 600]) @@
    (Spaet :> [duration |-> 800, start |-> 2200])

NightWeekend ==
    (Frueh :> [duration |-> 500, start |-> 925]) @@
    (Spaet :> [duration |-> 600, start |-> 1800])

Catalogs ==
    {[weekday |-> SourceWeekday, weekend |-> SourceWeekend],
     [weekday |-> NightWeekday, weekend |-> NightWeekend]}

ClockHorizons ==
    {[employees |-> t, start |-> s, days |-> n] :
        t \in {TableNone, TableTwo, TableFour, TableZeroHours},
        s \in {DaysFromCivil(2025, 1, 6), DaysFromCivil(2024, 12, 28)},
        n \in 1..ClockDays}

InitClock == \E h \in ClockHorizons, c \in Catalogs : Loaded(h, c.weekday, c.weekend)

SpecClock == InitClock /\ [][Next]_vars

-----------------------------------------------------------------------------
(* Properties of generate_schedule                                         *)

\* The rows of the returned schedule for employee e, as a set of positions.
Rows(e) == DOMAIN ret.dienstplan[e]

\* The returned rows of employee e with the date date_str.
RowsOn(e, date_str) == {i \in Rows(e) : ret.dienstplan[e][i].Datum = date_str}

\* C1: whenever the solver's status is not Optimal the run returns no
\* schedule (no row for any employee or date) and the failure message that
\* carries the status; two employees over three days end in this failure.
C1_NoScheduleUnlessOptimal ==
    /\ (pc = "done" /\ solver_calls > 0 /\ status # "Optimal")
          => /\ ret.kind = "none"
             /\ ret.dienstplan = NoEntries
             /\ ret.message = "Keine optimale Lösung gefunden. Status: " \o status
    /\ (pc = "done" /\ Cardinality(DOMAIN employees) = 2 /\ Len(dates) = 3)
          => /\ solver_calls = 1
             /\ status # "Optimal"
             /\ ret.kind = "none"

\* C1: two employees, three days: the solver reports Infeasible and the run
\* has returned no schedule.
C1_Witness ==
    /\ pc = "done"
    /\ Cardinality(DOMAIN employees) = 2
    /\ Len(dates) = 3
    /\ status = "Infeasible"
    /\ ret = Returned("none", NoEntries, "Keine optimale Lösung gefunden. Status: Infeasible")

\* C2: with no employees the run returns the no-employee-data failure, and
\* no decision variable and no constraint is created and the solver never runs.
C2_NoEmployeesNoModel ==
    DOMAIN employees = {}
        => /\ pc \in {"start", "done"}
           /\ assignments = {}
           /\ consecutive_days_vars = {}
           /\ prob = {}
           /\ solver_calls = 0
           /\ pc = "done" => ret = Returned("none", NoEntries, "Keine Mitarbeiterdaten vorhanden.")

\* C2: a run with no employees has returned.
C2_Witness ==
    /\ DOMAIN employees = {}
    /\ pc = "done"
    /\ ret.kind = "none"
    /\ ret.message = "Keine Mitarbeiterdaten vorhanden."

\* A table the employee data rules call invalid: a minimum above the
\* maximum, or no maximum hours at all.
InvalidTable(table) ==
    /\ DOMAIN table # {}
    /\ \/ \E e \in DOMAIN table : table[e].min_weekly_hours > table[e].max_weekly_hours
       \/ SumOver(DOMAIN table, [e \in DOMAIN table |-> table[e].max_weekly_hours]) = 0

\* C3: a non-empty table with an invalid record is refused before anything
\* of the model is built: no variable, no constraint, no solver call, no
\* division by zero, and the run ends raising InvalidEmployeeConfiguration.
C3_InvalidTableRefused ==
    InvalidTable(employees)
        => /\ assignments = {}
           /\ prob = {}
           /\ solver_calls = 0
           /\ ret.message # "ZeroDivisionError"
           /\ pc = "done" => ret = Returned("raised", NoEntries, "InvalidEmployeeConfiguration")

\* C4: in every returned schedule each employee has at most one row per
\* date of the horizon.
C4_OneRowPerDay ==
    ret.kind = "schedule"
        => \A e \in DOMAIN employees : \A i \in 1..Len(dates) :
              Cardinality(RowsOn(e, DateStr(dates[i]))) <= 1

\* C4: a schedule has been returned in which an employee for whom both kinds
\* are variables on both of two days works on each of them, and a value of
\* the run was reported off its exact 0 or 1.
C4_Witness ==
    /\ ret.kind = "schedule"
    /\ Len(dates) >= 2
    /\ \E k \in assignments : values[k] \notin {0, One}
    /\ \E e \in DOMAIN employees :
          /\ \A i \in 1..2 : \A shift \in ShiftSet : Key(e, dates[i], shift) \in FreeKeys
          /\ \A i \in 1..2 : Cardinality(RowsOn(e, DateStr(dates[i]))) = 1

\* The ISO weeks (ISO year, ISO week number) that hold dates of the horizon.
IsoWeeks == {IsoCalendar(dates[i]) : i \in 1..Len(dates)}

\* The paid hours of the returned rows of employee e in the ISO week w.
PaidInWeek(e, w) ==
    LET rows == {i \in Rows(e) : IsoCalendar(ToDatetime(ret.dienstplan[e][i].Datum)) = w}
    IN  SumOver(rows, [i \in rows |-> ret.dienstplan[e][i].Arbeitszeit])

\* C5: in every returned schedule the paid hours of each employee in each
\* ISO week of the horizon lie between the employee's minimum and maximum
\* weekly hours.
C5_WeeklyHoursWithinLimits ==
    ret.kind = "schedule"
        => \A e \in DOMAIN employees : \A w \in IsoWeeks :
              /\ PaidInWeek(e, w) >= employees[e].min_weekly_hours * Hour
              /\ PaidInWeek(e, w) <= employees[e].max_weekly_hours * Hour

\* The number of returned rows of employee e in the window that starts at idx.
RowsInWindow(e, idx) ==
    Cardinality({i \in Rows(e) : ret.dienstplan[e][i].Datum \in WindowDates(idx)})

\* The constraints of prob whose name starts with one of the given prefixes.
Named(kinds) == {c \in prob : c.name.kind \in kinds}

\* C6: in every returned schedule each employee works at most
\* max_consecutive_days shifts in every window of max_consecutive_days + 1
\* consecutive dates; over a shorter horizon no overflow variable and no
\* consecutive-days constraint is created, and the problem is still built.
C6_ConsecutiveDaysCapped ==
    /\ ret.kind = "schedule"
          => \A e \in DOMAIN employees :
                \A idx \in 0..(Len(dates) - (max_consecutive_days + 1)) :
                    RowsInWindow(e, idx) <= max_consecutive_days
    /\ Len(dates) < max_consecutive_days + 1
          => /\ consecutive_days_vars = {}
             /\ Named({"MaxConsecutiveDays", "SoftMaxConsecutiveDays"}) = {}
             /\ pc = "constraints" => ENABLED AddConstraints

\* C6: a schedule over a horizon with a window has been returned in which an
\* employee works exactly max_consecutive_days shifts of the window, the
\* window's hard constraint being part of the problem.
C6_Witness ==
    /\ ret.kind = "schedule"
    /\ Len(dates) = max_consecutive_days + 1
    /\ Named({"MaxConsecutiveDays"}) # {}
    /\ \E e \in DOMAIN employees : RowsInWindow(e, 0) = max_consecutive_days

\* C6: a problem over a horizon with no window has been built and solved.
C6_ShortHorizonBuilt ==
    /\ Len(dates) < max_consecutive_days + 1
    /\ pc = "done"
    /\ ret.kind = "schedule"
    /\ Named({"MaxOneShiftPerDay"}) # {}

\* The preference table of employee e.
PreferencesOf(e) == employees[e].preferences

\* The score of an entry of the table for a kind, 0 where the entry does
\* not name the kind.
ScoreIn(entry, shift) == IF shift \in DOMAIN entry THEN entry[shift] ELSE 0

\* The entry under the exact date decides whenever the table has one, whether
\* or not it names the kind; the weekday's entry only when there is none.
ScoreByEntry(e, date, shift) ==
    IF DateStr(date) \in DOMAIN PreferencesOf(e)
    THEN ScoreIn(PreferencesOf(e)[DateStr(date)], shift)
    ELSE IF DayName(date) \in DOMAIN PreferencesOf(e)
         THEN ScoreIn(PreferencesOf(e)[DayName(date)], shift)
         ELSE 0

\* The exact date's score for the kind where there is one, otherwise the
\* weekday's score for the kind where there is one, otherwise 0.
ScoreByKind(e, date, shift) ==
    IF /\ DateStr(date) \in DOMAIN PreferencesOf(e)
       /\ shift \in DOMAIN PreferencesOf(e)[DateStr(date)]
    THEN PreferencesOf(e)[DateStr(date)][shift]
    ELSE IF /\ DayName(date) \in DOMAIN PreferencesOf(e)
            /\ shift \in DOMAIN PreferencesOf(e)[DayName(date)]
         THEN PreferencesOf(e)[DayName(date)][shift]
         ELSE 0

\* C7 (amended): the score of (employee, date, kind) in the objective is the
\* exact-date entry's score for the kind, or 0 if that entry does not name
\* the kind, whenever the table has an entry for the exact date; otherwise
\* the weekday entry's score for the kind, or 0 if that entry does not name
\* the kind; otherwise 0.
C7_ExactDateEntryDecides ==
    "pref" \in DOMAIN objective
        => \A k \in assignments :
              objective.pref[k]
                  = preference_weight * ScoreByEntry(k[1], ToDatetime(k[2]), k[3])

\* C7: the objective has been built for an employee whose table has an exact
\* date naming one kind only and a weekday entry naming both: the kind with
\* both scores has the exact date's, the other kind has 0.
C7_Witness ==
    /\ "pref" \in DOMAIN objective
    /\ \E k \in assignments : \E j \in assignments :
          /\ k[1] = j[1] /\ k[2] = j[2] /\ k[3] # j[3]
          /\ k[2] \in DOMAIN PreferencesOf(k[1])
          /\ DayName(ToDatetime(k[2])) \in DOMAIN PreferencesOf(k[1])
          /\ k[3] \in DOMAIN PreferencesOf(k[1])[k[2]]
          /\ k[3] \in DOMAIN PreferencesOf(k[1])[DayName(ToDatetime(k[2]))]
          /\ PreferencesOf(k[1])[k[2]][k[3]]
                 # PreferencesOf(k[1])[DayName(ToDatetime(k[2]))][k[3]]
          /\ objective.pref[k] = preference_weight * PreferencesOf(k[1])[k[2]][k[3]]
          /\ j[3] \notin DOMAIN PreferencesOf(k[1])[k[2]]
          /\ PreferencesOf(k[1])[DayName(ToDatetime(k[2]))][j[3]] # 0
          /\ objective.pref[j] = 0

\* C7 (as stated): the score is the exact date's score for that kind where
\* the table has one, otherwise the weekday's score for that kind where the
\* table has one, otherwise 0.
C7_KindEntryDecides ==
    "pref" \in DOMAIN objective
        => \A k \in assignments :
              objective.pref[k]
                  = preference_weight * ScoreByKind(k[1], ToDatetime(k[2]), k[3])

\* The returned schedule has a row for the decision variable k.
HasRow(k) ==
    \E i \in Rows(k[1]) :
        /\ ret.dienstplan[k[1]][i].Datum = k[2]
        /\ ret.dienstplan[k[1]][i].Schicht = k[3]

\* C8: the returned schedule has a row for a decision variable exactly when
\* its solved value is above one half; a value just below 1 yields its row.
C8_RowIffAboveThreshold ==
    ret.kind = "schedule"
        => \A k \in assignments : HasRow(k) <=> 2 * values[k] > One

\* The time t (hundredths of an hour from midnight of the shift's day) as a
\* clock time of the day it falls on, the minutes cut off.
TimeOfDay(t) == Clock((t \div Hour) % 24, ((t % Hour) * 60) \div Hour)

\* The catalog entry of a kind on a date.
CatalogEntry(shift, date) ==
    IF Weekday(date) >= 5 \/ date \in feiertage
    THEN shifts_weekend[shift]
    ELSE shifts_weekday[shift]

\* The row r is the row of kind r.Schicht starting on the date r.Datum.
RowAsCatalog(r) ==
    LET entry == CatalogEntry(r.Schicht, ToDatetime(r.Datum))
        long  == entry.duration > 6 * Hour
    IN  /\ r.Wochentag = DayName(ToDatetime(r.Datum))
        /\ r.Startzeit = TimeOfDay(entry.start)
        /\ r.Endzeit = TimeOfDay(entry.start + entry.duration)
        /\ r.Arbeitszeit = IF long THEN entry.duration - Hour ELSE entry.duration
        /\ r.Pause = IF long THEN "Ja" ELSE "Nein"

\* C9: every variable solved to 1 has its row, under the date the shift
\* starts on, and every row shows the start as HH:MM, the end as HH:MM of
\* start + duration modulo 24 hours, the minutes cut off, the break flag
\* exactly when the duration is above 6 hours and the paid hours as the
\* duration less 1 hour with a break and the duration without.
C9_RowClockTimes ==
    ret.kind = "schedule"
        => /\ \A k \in assignments : values[k] = One => HasRow(k)
           /\ \A e \in DOMAIN employees : \A i \in Rows(e) :
                 /\ \E j \in 1..Len(dates) : ret.dienstplan[e][i].Datum = DateStr(dates[j])
                 /\ <<e, ret.dienstplan[e][i].Datum, ret.dienstplan[e][i].Schicht>>
                        \in assignments
                 /\ RowAsCatalog(ret.dienstplan[e][i])

\* C9: a schedule has been returned with a row of a shift that starts at
\* 22:00 and lasts 8 hours: it ends at 06:00, under its start date, with 7
\* paid hours and a break.
C9_Witness ==
    /\ ret.kind = "schedule"
    /\ \E e \in DOMAIN employees : \E i \in Rows(e) :
          /\ CatalogEntry(ret.dienstplan[e][i].Schicht,
                          ToDatetime(ret.dienstplan[e][i].Datum))
                 = [duration |-> 8 * Hour, start |-> 22 * Hour]
          /\ ret.dienstplan[e][i].Startzeit = "22:00"
          /\ ret.dienstplan[e][i].Endzeit = "06:00"
          /\ ret.dienstplan[e][i].Arbeitszeit = 7 * Hour
          /\ ret.dienstplan[e][i].Pause = "Ja"

\* Saturday or Sunday, or a public holiday of the date's own calendar year.
WeekendOrHolidayOfOwnYear(date) ==
    Weekday(date) \in {5, 6} \/ date \in PopulateNW(YearOf(date))

\* C10: for every date of the horizon is_weekend_or_holiday is true exactly
\* on a Saturday, a Sunday or a public holiday of the date's own year, also
\* where that year is not the start date's, and such a date is planned with
\* the weekend catalog.
C10_HolidayOfOwnYear ==
    \A i \in 1..Len(dates) :
        /\ is_weekend_or_holiday(dates[i]) <=> WeekendOrHolidayOfOwnYear(dates[i])
        /\ \A shift \in ShiftSet :
              /\ get_shift_start(shift, dates[i])
                    = IF WeekendOrHolidayOfOwnYear(dates[i])
                      THEN shifts_weekend[shift].start ELSE shifts_weekday[shift].start
              /\ get_shift_duration(shift, dates[i])
                    = IF WeekendOrHolidayOfOwnYear(dates[i])
                      THEN shifts_weekend[shift].duration ELSE shifts_weekday[shift].duration

\* C10: a schedule has been returned over a horizon holding a weekday that is
\* a public holiday of the year after the start date's, with a row on that
\* day at the weekend catalog's hours.
C10_Witness ==
    /\ ret.kind = "schedule"
    /\ \E i \in 1..Len(dates) :
          /\ YearOf(dates[i]) # YearOf(start_date)
          /\ Weekday(dates[i]) < 5
          /\ dates[i] \in PopulateNW(YearOf(dates[i]))
          /\ \E e \in DOMAIN employees : \E r \in RowsOn(e, DateStr(dates[i])) :
                /\ ret.dienstplan[e][r].Startzeit
                       = TimeOfDay(shifts_weekend[ret.dienstplan[e][r].Schicht].start)
                /\ ret.dienstplan[e][r].Arbeitszeit
                       = shifts_weekend[ret.dienstplan[e][r].Schicht].duration

\* The assignment the solver's values stand for.
Chosen == {k \in assignments : 2 * values[k] > One}

\* The objective's value at the solved values of the variables.
SolvedObjective ==
    SumOver(Chosen, [k \in Chosen |-> objective.pref[k]])
    - SumOver(consecutive_days_vars,
              [v \in consecutive_days_vars |-> objective.pen[v] * overflow[v]])

\* C11: in every solution reported Optimal each window's sum of shifts is at
\* most max_consecutive_days, every overflow variable is 0, and the value of
\* the objective is preference_weight times the sum of the preference scores
\* of the assigned shifts.
C11_SoftPenaltyInert ==
    (solver_calls > 0 /\ status = "Optimal")
        => /\ \A c \in Named({"SoftMaxConsecutiveDays"}) :
                 /\ Lhs(c, Chosen) <= max_consecutive_days
                 /\ overflow[c.ovar] = 0
           /\ \A v \in consecutive_days_vars : overflow[v] = 0
           /\ SolvedObjective
                 = preference_weight
                   * SumOver(Chosen,
                             [k \in Chosen |-> ScoreByEntry(k[1], ToDatetime(k[2]), k[3])])

\* C11: a problem with overflow variables has been solved to Optimal with an
\* employee at the limit of a window and an objective above 0.
C11_Witness ==
    /\ solver_calls > 0
    /\ status = "Optimal"
    /\ consecutive_days_vars # {}
    /\ \E c \in Named({"SoftMaxConsecutiveDays"}) :
          /\ c.ovar \in consecutive_days_vars
          /\ Lhs(c, Chosen) = max_consecutive_days
    /\ SolvedObjective > 0

\* The time from the end of the shift of kind current on dates[i] to the
\* start of the shift of kind next on the following date.
RealRest(i, current, next) ==
    (CatalogEntry(next, dates[i + 1]).start + 24 * Hour)
    - (CatalogEntry(current, dates[i]).start + CatalogEntry(current, dates[i]).duration)

\* The problem forbids employee e the pair (current on dates[i], next on the
\* following date).
PairForbidden(e, i, current, next) ==
    \E c \in Named({"MinRestTime"}) :
        /\ c.name.e = e
        /\ c.name.d = DateStr(dates[i]) /\ c.name.s = current
        /\ c.name.d2 = DateStr(dates[i + 1]) /\ c.name.s2 = next
        /\ c.sense = "<=" /\ c.rhs = 1
        /\ DOMAIN c.terms = {Key(e, dates[i], current), Key(e, dates[i + 1], next)}

\* C12: once the constraints are built, for every employee and every pair
\* of kinds on adjacent dates the pair is forbidden exactly when the time
\* from the end of the first shift to the start of the second, a day later,
\* is below min_rest_time.
C12_ForbiddenIffRealRestShort ==
    Named({"MinStaff"}) # {}
        => \A e \in DOMAIN employees : \A i \in 1..(Len(dates) - 1) :
              \A current \in ShiftSet : \A next \in ShiftSet :
                  PairForbidden(e, i, current, next)
                      <=> RealRest(i, current, next) < min_rest_time * Hour

\* The shifts the staffing minimum asks for over the horizon: the sum of the
\* lower bounds of MinStaff, each variable being in exactly one of them.
StaffDemand ==
    SumOver(Named({"MinStaff"}), [c \in Named({"MinStaff"}) |-> c.rhs])

\* The most shifts an employee may have under the constraint c of FairnessMax.
ShiftCap(c) == c.rhs \div c.terms[CHOOSE k \in DOMAIN c.terms : TRUE]

\* The shifts the fairness band leaves room for: the sum of the employees'
\* caps, each variable being in exactly one constraint of FairnessMax.
FairnessRoom ==
    SumOver(Named({"FairnessMax"}), [c \in Named({"FairnessMax"}) |-> ShiftCap(c)])

\* C13: the staffing minimum fits under the fairness caps only with at least
\* as many employees as days; a problem reported Optimal has at least as
\* many employees as days; and a run with fewer employees than days returns
\* the failure and no schedule.
C13_FewerEmployeesThanDaysFails ==
    /\ (Named({"FairnessMax"}) # {} /\ StaffDemand <= FairnessRoom)
          => Cardinality(DOMAIN employees) >= Len(dates)
    /\ (solver_calls > 0 /\ status = "Optimal")
          => Cardinality(DOMAIN employees) >= Len(dates)
    /\ (pc = "done" /\ Cardinality(DOMAIN employees) < Len(dates))
          => /\ ret.kind = "none"
             /\ ret.dienstplan = NoEntries

\* C13: a table with enough employees to staff each single day (two shifts
\* of min_staff), planned over one day more than it has employees, has been
\* solved: the demand exceeds the room, the status is Infeasible and the run
\* has returned no schedule.
C13_Witness ==
    /\ pc = "done"
    /\ Cardinality(DOMAIN employees) >= 2 * min_staff
    /\ Len(dates) = Cardinality(DOMAIN employees) + 1
    /\ StaffDemand > FairnessRoom
    /\ status = "Infeasible"
    /\ ret.kind = "none"

=============================================================================
